---- MODULE Spec2Model ----
(***************************************************************************)
(* Model of src/static/js/auth.js: the client-side session cache.          *)
(*                                                                         *)
(* The module state is the two module-level bindings currentUser and       *)
(* fetchPromise, the localStorage slot "access_token", window.location     *)
(* and the console.  The code runs on a JavaScript event loop: every       *)
(* exported function runs to completion, and the async body started at     *)
(* line 19 suspends exactly at its two awaits (line 21: the response of    *)
(* fetch, line 28: the parsed body).  Each resumption of that body up to   *)
(* its end is one atomic step.  Promise continuations of the callers of    *)
(* getCurrentUser() are microtasks: they run before the next network       *)
(* event is dispatched and may themselves call any exported function.      *)
(*                                                                         *)
(* fetch() and response.json() are promise-returning platform operations:  *)
(* their failures are rejections delivered at the await.  The code tests   *)
(* the token (line 15) and the cached user (line 5) for truthiness: the    *)
(* empty string can be stored as a token, and an OK body can parse to a    *)
(* falsy value (null, "", 0, false), which line 28 assigns all the same.   *)
(***************************************************************************)
EXTENDS Integers, Sequences, FiniteSets, TLC

\* Bounds of the exploration: promise identities available to the async bodies
\* of line 19, getCurrentUser() promises whose continuation has not yet run,
\* and console.error lines kept.
MaxFetches == 2
MaxCalls == 3
MaxErrors == 1

\* JavaScript null, and the value of a promise that has not settled.
Null == "null"
Pending == "pending"

\* A falsy value that is not null: the empty string as a token; "", 0 or
\* false as a parsed body.
Empty == ""

\* The truthiness tests of lines 5 and 15.
Truthy(v) == v \notin {Null, Empty}

\* Non-empty token strings, and the strings setToken() may be given.
Tokens == {"t1", "t2"}
Storable == Tokens \cup {Empty}

\* User objects the endpoint may return, and the values an OK body may parse to.
Users == {"u1", "u2"}
Bodies == Users \cup {Null, Empty}

\* window.location.href before any navigation by this module.
StartHref == "/app"

VARIABLES
  currentUser,   \* line 1: Null, or the parsed body of the last OK response
  fetchPromise,  \* line 2: 0 for null, else the identity of the promise of line 19
  access_token,  \* localStorage["access_token"]: Null when the key is absent, else a string
  href,          \* window.location.href
  console,       \* number of console.error lines written
  fetches,       \* the async bodies of line 19 and their promises, by promise identity
  calls,         \* the promises returned by getCurrentUser() whose continuation has not run
  cleared,       \* history: whether the last clearUserCache() since the last getCurrentUser() ran during a request
  last           \* history: the step taken last

vars == <<currentUser, fetchPromise, access_token, href, console, fetches, calls, cleared, last>>

\* The async bodies that have not run to their end: their request is outstanding.
InFlight == {f \in DOMAIN fetches : fetches[f].pc # "settled"}

\* The value the promise returned by call c resolves to: its own value, or
\* that of the body promise it follows (line 11, line 42).
ResolutionIn(cs, fs, c) ==
  IF cs[c].fetch = 0 THEN cs[c].value ELSE fs[cs[c].fetch].result

Resolution(c) == ResolutionIn(calls, fetches, c)

\* No continuation of a settled getCurrentUser() promise is waiting to run.
MicrotasksDrained == \A c \in DOMAIN calls : Resolution(c) = Pending

\* Promise identities in use: a body promise lives while its body runs or the
\* marker or a caller still refers to it.
LivePromises == DOMAIN fetches

\* A fresh promise identity / call slot.
FreshPromise == CHOOSE f \in (1..MaxFetches) \ LivePromises :
                  \A g \in (1..MaxFetches) \ LivePromises : f <= g
FreshCall == CHOOSE c \in (1..MaxCalls) \ DOMAIN calls :
               \A d \in (1..MaxCalls) \ DOMAIN calls : c <= d

Step(op, id, val) == [op |-> op, id |-> id, val |-> val, via |-> "-", cleared |-> "-"]

Init ==
  /\ currentUser = Null
  /\ fetchPromise = 0
  /\ access_token \in Storable \cup {Null}
  /\ href = StartHref
  /\ console = 0
  /\ fetches = [f \in {} |-> 0]
  /\ calls = [c \in {} |-> 0]
  /\ cleared = "no"
  /\ last = Step("load", 0, Null)

\* The promise returned by one getCurrentUser() call: the body promise it
\* follows (0 when it was resolved at once) and the value it resolves to, with
\* what the call found: the bodies then in flight and whether the key
\* "access_token" was present in storage (with any string, also the empty one).
Call(f, v) ==
  [fetch |-> f, value |-> v, inflight |-> InFlight, hadToken |-> access_token # Null]

AddCall(f, v) == calls' = [c \in DOMAIN calls \cup {FreshCall} |->
                            IF c = FreshCall THEN Call(f, v) ELSE calls[c]]

\* Lines 5-7: a truthy currentUser is returned as is.
ReturnCached ==
  /\ Truthy(currentUser)
  /\ AddCall(0, currentUser)
  /\ last' = [Step("getCurrentUser", FreshCall, currentUser) EXCEPT !.via = "cached", !.cleared = cleared]
  /\ UNCHANGED <<fetches, fetchPromise>>

\* Lines 10-12: the pending promise is returned.
ReturnPending ==
  /\ ~Truthy(currentUser)
  /\ fetchPromise # 0
  /\ AddCall(fetchPromise, Pending)
  /\ last' = [Step("getCurrentUser", FreshCall, Pending) EXCEPT !.via = "coalesced", !.cleared = cleared]
  /\ UNCHANGED <<fetches, fetchPromise>>

\* Mutation of ReturnNoToken: the token test of lines 14-17 placed ahead of the
\* marker test of lines 10-12.
ReturnNoToken_BeforeMarker ==
  /\ ~Truthy(currentUser)
  /\ ~Truthy(access_token)
  /\ AddCall(0, Null)
  /\ last' = [Step("getCurrentUser", FreshCall, Null) EXCEPT !.via = "notoken", !.cleared = cleared]
  /\ UNCHANGED <<fetches, fetchPromise>>

\* Lines 14-17: no token or an empty one, null at once.
ReturnNoToken ==
  /\ ~Truthy(currentUser)
  /\ fetchPromise = 0
  /\ ~Truthy(access_token)
  /\ AddCall(0, Null)
  /\ last' = [Step("getCurrentUser", FreshCall, Null) EXCEPT !.via = "notoken", !.cleared = cleared]
  /\ UNCHANGED <<fetches, fetchPromise>>

\* The body started at lines 19-25 and the call that follows it (line 42).
StartBody ==
  /\ (1..MaxFetches) \ LivePromises # {}
  /\ fetches' = [f \in DOMAIN fetches \cup {FreshPromise} |->
                  IF f = FreshPromise
                    THEN [token |-> access_token, pc |-> "fetch", result |-> Pending]
                  ELSE fetches[f]]
  /\ fetchPromise' = FreshPromise
  /\ AddCall(FreshPromise, Pending)
  /\ last' = [Step("getCurrentUser", FreshCall, Pending) EXCEPT !.via = "issued", !.cleared = cleared]

\* Mutation of IssueRequest: lines 10-12 missing, a request is issued although
\* one is pending.
IssueRequest_NoMarkerCheck ==
  /\ ~Truthy(currentUser)
  /\ Truthy(access_token)
  /\ StartBody

\* Mutation of IssueRequest: lines 5-7 missing, a request is issued although a
\* user is cached.
IssueRequest_NoCacheCheck ==
  /\ fetchPromise = 0
  /\ Truthy(access_token)
  /\ StartBody

\* Mutation of IssueRequest: lines 15-17 missing, a request is issued with no
\* token stored.
IssueRequest_NoTokenCheck ==
  /\ ~Truthy(currentUser)
  /\ fetchPromise = 0
  /\ StartBody

\* Lines 19-25 and 42: the async body starts, calls fetch with the token read at
\* line 14 and suspends; its promise becomes the marker and is returned.
IssueRequest ==
  /\ ~Truthy(currentUser)
  /\ fetchPromise = 0
  /\ Truthy(access_token)
  /\ StartBody

\* Lines 4-43.
getCurrentUser ==
  /\ (1..MaxCalls) \ DOMAIN calls # {}
  /\ (ReturnCached \/ ReturnPending \/ ReturnNoToken \/ IssueRequest)
  /\ cleared' = "no"
  /\ UNCHANGED <<currentUser, access_token, href, console>>

\* Mutation of Finally: the finally block of lines 37-39 missing.
Finally_KeepMarker(f, v) ==
  /\ fetches' = [fetches EXCEPT ![f] = [@ EXCEPT !.pc = "settled", !.result = v]]
  /\ UNCHANGED fetchPromise

\* Lines 37-39 after a return: the marker is cleared, the body ends and its
\* promise, with every promise that follows it, resolves to v.
Finally(f, v) ==
  /\ fetchPromise' = 0
  /\ fetches' = [fetches EXCEPT ![f] = [@ EXCEPT !.pc = "settled", !.result = v]]

\* Mutation of fetchFulfilled: line 32 missing, a non-OK response keeps the token.
fetchFulfilled_KeepToken ==
  \E f \in InFlight, ok \in BOOLEAN :
    /\ MicrotasksDrained
    /\ fetches[f].pc = "fetch"
    /\ IF ok
         THEN /\ fetches' = [fetches EXCEPT ![f].pc = "json"]
              /\ UNCHANGED fetchPromise
         ELSE Finally(f, Null)
    /\ last' = Step(IF ok THEN "responseOk" ELSE "responseNotOk", f,
                    IF ok THEN Null ELSE access_token)
    /\ UNCHANGED <<currentUser, access_token, href, console, calls, cleared>>

\* Mutation of fetchFulfilled: line 32 removes the token only when it is still
\* the one the request was sent with.
fetchFulfilled_RemoveOwnToken ==
  \E f \in InFlight, ok \in BOOLEAN :
    /\ MicrotasksDrained
    /\ fetches[f].pc = "fetch"
    /\ IF ok
         THEN /\ fetches' = [fetches EXCEPT ![f].pc = "json"]
              /\ UNCHANGED <<fetchPromise, access_token>>
         ELSE /\ access_token' = IF access_token = fetches[f].token THEN Null ELSE access_token
              /\ Finally(f, Null)
    /\ last' = Step(IF ok THEN "responseOk" ELSE "responseNotOk", f,
                    IF ok THEN Null ELSE access_token)
    /\ UNCHANGED <<currentUser, href, console, calls, cleared>>

\* Line 21 resumes with a response; lines 27 and 32-33.
\* The step records the slot's value found by removeItem at line 32.
fetchFulfilled ==
  \E f \in InFlight, ok \in BOOLEAN :
    /\ MicrotasksDrained
    /\ fetches[f].pc = "fetch"
    /\ IF ok
         THEN /\ fetches' = [fetches EXCEPT ![f].pc = "json"]
              /\ UNCHANGED <<fetchPromise, access_token>>
         ELSE /\ access_token' = Null
              /\ Finally(f, Null)
    /\ last' = Step(IF ok THEN "responseOk" ELSE "responseNotOk", f,
                    IF ok THEN Null ELSE access_token)
    /\ UNCHANGED <<currentUser, href, console, calls, cleared>>

\* Lines 34-36.
Catch == console' = console + 1

\* Mutation of fetchRejected: the catch block discards the token as line 32 does.
fetchRejected_DiscardToken ==
  \E f \in InFlight :
    /\ MicrotasksDrained
    /\ console < MaxErrors
    /\ fetches[f].pc = "fetch"
    /\ Catch
    /\ access_token' = Null
    /\ Finally(f, Null)
    /\ last' = Step("fetchRejected", f, Null)
    /\ UNCHANGED <<currentUser, href, calls, cleared>>

\* Mutation of fetchRejected: the marker is reset at the end of the try block
\* instead of a finally, so the catch path returns with the marker still set.
fetchRejected_KeepMarker ==
  \E f \in InFlight :
    /\ MicrotasksDrained
    /\ console < MaxErrors
    /\ fetches[f].pc = "fetch"
    /\ Catch
    /\ Finally_KeepMarker(f, Null)
    /\ last' = Step("fetchRejected", f, Null)
    /\ UNCHANGED <<currentUser, access_token, href, calls, cleared>>

\* Line 21 resumes with a rejection (network fault); lines 34-39.
fetchRejected ==
  \E f \in InFlight :
    /\ MicrotasksDrained
    /\ console < MaxErrors
    /\ fetches[f].pc = "fetch"
    /\ Catch
    /\ Finally(f, Null)
    /\ last' = Step("fetchRejected", f, Null)
    /\ UNCHANGED <<currentUser, access_token, href, calls, cleared>>

\* Mutation of jsonFulfilled: the parsed body is returned without the
\* assignment of line 28.
jsonFulfilled_NoCache ==
  \E f \in InFlight, u \in Bodies :
    /\ MicrotasksDrained
    /\ fetches[f].pc = "json"
    /\ Finally(f, u)
    /\ last' = Step("jsonFulfilled", f, u)
    /\ UNCHANGED <<currentUser, access_token, href, console, calls, cleared>>

\* Mutation of jsonFulfilled: the marker is cleared on the failure paths only,
\* the OK path caches and returns with the marker still set.
jsonFulfilled_KeepMarker ==
  \E f \in InFlight, u \in Bodies :
    /\ MicrotasksDrained
    /\ fetches[f].pc = "json"
    /\ currentUser' = u
    /\ Finally_KeepMarker(f, u)
    /\ last' = Step("jsonFulfilled", f, u)
    /\ UNCHANGED <<access_token, href, console, calls, cleared>>

\* Line 28 resumes with the parsed body; lines 28-29 and 37-39.
jsonFulfilled ==
  \E f \in InFlight, u \in Bodies :
    /\ MicrotasksDrained
    /\ fetches[f].pc = "json"
    /\ currentUser' = u
    /\ Finally(f, u)
    /\ last' = Step("jsonFulfilled", f, u)
    /\ UNCHANGED <<access_token, href, console, calls, cleared>>

\* Line 28 resumes with a rejection (malformed body); lines 34-39.
jsonRejected ==
  \E f \in InFlight :
    /\ MicrotasksDrained
    /\ console < MaxErrors
    /\ fetches[f].pc = "json"
    /\ Catch
    /\ Finally(f, Null)
    /\ last' = Step("jsonRejected", f, Null)
    /\ UNCHANGED <<currentUser, access_token, href, calls, cleared>>

\* Mutation of logout: line 47 missing.
logout_KeepUser ==
  /\ access_token' = Null
  /\ href' = "/"
  /\ last' = Step("logout", 0, Null)
  /\ UNCHANGED <<currentUser, fetchPromise, console, fetches, calls, cleared>>

\* Lines 45-49.
logout ==
  /\ access_token' = Null
  /\ currentUser' = Null
  /\ href' = "/"
  /\ last' = Step("logout", 0, Null)
  /\ UNCHANGED <<fetchPromise, console, fetches, calls, cleared>>

\* Lines 51-53.
getToken ==
  /\ last' = Step("getToken", 0, access_token)
  /\ UNCHANGED <<currentUser, fetchPromise, access_token, href, console, fetches, calls, cleared>>

\* Mutation of setToken: the value is written under another key, the slot
\* read by getToken() and line 14 is left as it was.
setToken_WrongKey ==
  \E t \in Storable :
    /\ last' = Step("setToken", 0, t)
    /\ UNCHANGED <<currentUser, fetchPromise, access_token, href, console, fetches, calls, cleared>>

\* Mutation of setToken: storing a token also drops the cached user.
setToken_ClearCache ==
  \E t \in Storable :
    /\ access_token' = t
    /\ currentUser' = Null
    /\ last' = Step("setToken", 0, t)
    /\ UNCHANGED <<fetchPromise, href, console, fetches, calls, cleared>>

\* Lines 55-57.
setToken ==
  \E t \in Storable :
    /\ access_token' = t
    /\ last' = Step("setToken", 0, t)
    /\ UNCHANGED <<currentUser, fetchPromise, href, console, fetches, calls, cleared>>

\* Mutation of clearUserCache: line 60 missing.
clearUserCache_KeepUser ==
  /\ cleared' = IF InFlight = {} THEN "idle" ELSE "inflight"
  /\ last' = Step("clearUserCache", 0, Null)
  /\ UNCHANGED <<currentUser, fetchPromise, access_token, href, console, fetches, calls>>

\* Mutation of clearUserCache: the marker is reset together with the cache.
clearUserCache_ResetMarker ==
  /\ currentUser' = Null
  /\ fetchPromise' = 0
  /\ cleared' = IF InFlight = {} THEN "idle" ELSE "inflight"
  /\ last' = Step("clearUserCache", 0, Null)
  /\ UNCHANGED <<access_token, href, console, fetches, calls>>

\* Lines 59-61.
clearUserCache ==
  /\ currentUser' = Null
  /\ cleared' = IF InFlight = {} THEN "idle" ELSE "inflight"
  /\ last' = Step("clearUserCache", 0, Null)
  /\ UNCHANGED <<fetchPromise, access_token, href, console, fetches, calls>>

\* The continuation of a caller runs with the value its promise resolved to;
\* its promise leaves the list of waiting ones (the later ones move up) and a
\* settled body promise nobody refers to any more is dropped.
Observe ==
  \E c \in DOMAIN calls :
    /\ Resolution(c) # Pending
    /\ calls' = [d \in 1..(Cardinality(DOMAIN calls) - 1) |->
                  IF d < c THEN calls[d] ELSE calls[d + 1]]
    /\ fetches' = [f \in {g \in DOMAIN fetches :
                            \/ fetches[g].pc # "settled"
                            \/ g = fetchPromise
                            \/ \E d \in DOMAIN calls \ {c} : calls[d].fetch = g}
                    |-> fetches[f]]
    /\ last' = [Step("observe", c, Resolution(c)) EXCEPT !.id = calls[c].fetch]
    /\ UNCHANGED <<currentUser, fetchPromise, access_token, href, console, cleared>>

Next ==
  \/ getCurrentUser
  \/ fetchFulfilled
  \/ fetchRejected
  \/ jsonFulfilled
  \/ jsonRejected
  \/ logout
  \/ getToken
  \/ setToken
  \/ clearUserCache
  \/ Observe

Spec == Init /\ [][Next]_vars

\* A network event is dispatched to the suspended body: the response or the
\* parsed body arrives, or the await is rejected.
NetworkEvent == fetchFulfilled \/ fetchRejected \/ jsonFulfilled \/ jsonRejected

\* The event loop runs every queued continuation, and every issued request
\* is eventually answered or fails.
FairSpec == Spec /\ WF_vars(Observe) /\ WF_vars(NetworkEvent)

TypeOK ==
  /\ currentUser \in Bodies
  /\ fetchPromise \in 0..MaxFetches
  /\ access_token \in Storable \cup {Null}
  /\ href \in {StartHref, "/"}
  /\ console \in 0..MaxErrors
  /\ DOMAIN fetches \subseteq 1..MaxFetches
  /\ DOMAIN calls \subseteq 1..MaxCalls
  /\ cleared \in {"no", "idle", "inflight"}

(***************************************************************************)
(* Properties.                                                             *)
(***************************************************************************)

\* The steps at which an async body runs to its end.
Settles == {"responseNotOk", "fetchRejected", "jsonRejected", "jsonFulfilled"}
Faults == {"fetchRejected", "jsonRejected"}

\* The getCurrentUser() promises that follow body promise f.
Followers(f) == {c \in DOMAIN calls : calls[c].fetch = f}

\* C1: single-flight. In every reachable state at most one identity request
\* is outstanding, and a getCurrentUser() call made while one is outstanding
\* starts no body and issues no request, whatever logout(), setToken(),
\* clearUserCache() and completions came before.
C1_SingleFlight ==
  /\ [](Cardinality(InFlight) <= 1)
  /\ [][(InFlight # {} /\ last'.op = "getCurrentUser")
          => (fetches' = fetches /\ fetchPromise' = fetchPromise)]_vars

\* C1 witness: a call has just been coalesced onto the one outstanding request
\* after the token was removed under it, and a further caller is waiting too.
C1_Witness ==
  /\ last.op = "getCurrentUser" /\ last.via = "coalesced"
  /\ Cardinality(InFlight) = 1
  /\ access_token = Null
  /\ Cardinality(DOMAIN calls) >= 3

\* C2: request coalescing. Every getCurrentUser() promise created while a
\* body was in flight follows the promise of that very body, so it resolves
\* to that body's outcome and to nothing obtained independently.
C2_Coalescing ==
  \A c \in DOMAIN calls :
    calls[c].inflight # {} =>
      /\ calls[c].fetch \in calls[c].inflight
      /\ calls[c].fetch \in DOMAIN fetches
      /\ Resolution(c) = fetches[calls[c].fetch].result

\* C2 witness: three callers, two of them having called while the request was
\* in flight, all resolved to the same user by the one body.
C2_Witness ==
  \E f \in DOMAIN fetches :
    /\ fetches[f].result \in Users
    /\ Cardinality(Followers(f)) >= 3
    /\ Cardinality({c \in Followers(f) : calls[c].inflight = {f}}) >= 2
    /\ \A c \in Followers(f) : Resolution(c) = fetches[f].result

\* C3: the completion with a non-OK response leaves no token in storage,
\* resolves the body promise and every promise following it to null, and
\* does not touch the cached user.
C3_NonOk ==
  [][last'.op = "responseNotOk" =>
       /\ access_token' = Null
       /\ fetches'[last'.id].result = Null
       /\ \A c \in DOMAIN calls' : calls'[c].fetch = last'.id => ResolutionIn(calls', fetches', c) = Null
       /\ currentUser' = currentUser]_vars

\* C3 witness: a non-OK completion of a request sent with t1 has just
\* resolved the issuing caller and a coalesced one, and no token is stored.
C3_Witness ==
  /\ last.op = "responseNotOk"
  /\ Cardinality(Followers(last.id)) >= 2
  /\ fetches[last.id].token = "t1"
  /\ access_token = Null

\* C4 as stated: a network or parse fault resolves the body promise and every
\* promise following it to null, leaves the stored token as it was and leaves
\* the cached user null; a getCurrentUser() call right after it, a token
\* being stored, issues a request carrying that token.
C4_Original ==
  /\ [][last'.op \in Faults =>
          /\ access_token' = access_token
          /\ currentUser' = Null
          /\ fetches'[last'.id].result = Null
          /\ \A c \in DOMAIN calls' : calls'[c].fetch = last'.id => ResolutionIn(calls', fetches', c) = Null]_vars
  /\ [][(last.op \in Faults /\ last'.op = "getCurrentUser" /\ access_token # Null) =>
          /\ last'.via = "issued"
          /\ fetches'[fetchPromise'].token = access_token]_vars

\* C4: a network or parse fault resolves the body promise and every promise
\* following it to null (nothing is rejected), leaves the stored token as it
\* was and the cache as it was, holding no user (null or a falsy body of an
\* earlier OK response); a getCurrentUser() call right after it, that token
\* being non-empty, issues a request carrying it.
C4_Fault ==
  /\ [][last'.op \in Faults =>
          /\ access_token' = access_token
          /\ ~Truthy(currentUser) /\ currentUser' = currentUser
          /\ fetches'[last'.id].result = Null
          /\ \A c \in DOMAIN calls' : calls'[c].fetch = last'.id => ResolutionIn(calls', fetches', c) = Null]_vars
  /\ [][(last.op \in Faults /\ last'.op = "getCurrentUser" /\ Truthy(access_token)) =>
          /\ last'.via = "issued"
          /\ fetches'[fetchPromise'].token = access_token]_vars

\* C4 witness: a parse fault has just settled the request; the token it was
\* sent with is still stored and the caller is resolved to null.
C4_Witness ==
  /\ last.op = "jsonRejected"
  /\ access_token # Null /\ access_token = fetches[last.id].token
  /\ currentUser = Null
  /\ \E c \in Followers(last.id) : Resolution(c) = Null

\* C5: an OK completion with body u resolves the body promise to u and makes
\* u the cached user; while a user is cached only logout() and
\* clearUserCache() change it, and every getCurrentUser() call resolves to it
\* at once without starting a body.
C5_CacheHit ==
  /\ [][last'.op = "jsonFulfilled" =>
          /\ last'.val \in Bodies
          /\ currentUser' = last'.val
          /\ fetches'[last'.id].result = last'.val]_vars
  /\ [][(currentUser \in Users /\ last'.op \notin {"logout", "clearUserCache"})
          => currentUser' = currentUser]_vars
  /\ [][(currentUser \in Users /\ last'.op = "getCurrentUser") =>
          /\ last'.via = "cached"
          /\ ResolutionIn(calls', fetches', last'.id) = currentUser
          /\ fetches' = fetches /\ fetchPromise' = fetchPromise]_vars

\* C5 witness: a call has just been answered from the cache.
C5_Witness ==
  /\ last.op = "getCurrentUser" /\ last.via = "cached"
  /\ currentUser \in Users
  /\ Resolution(last.id) = currentUser
  /\ InFlight = {}

\* C6: a getCurrentUser() call made while no token is stored (the key is
\* absent) issues no request and resolves to null: its promise never resolves
\* to a user.
C6_NoToken ==
  /\ [](\A c \in DOMAIN calls : ~calls[c].hadToken => Resolution(c) \notin Users)
  /\ [][(access_token = Null /\ last'.op = "getCurrentUser")
          => (fetches' = fetches /\ ResolutionIn(calls', fetches', last'.id) \notin Users)]_vars

\* C7 as stated: after clearUserCache(), the next getCurrentUser() call made
\* with a token stored (a non-empty one, to take the case most in the claim's
\* favour) issues a new request, also when the clear ran during a request.
C7_Original ==
  [][(last'.op = "getCurrentUser" /\ cleared # "no" /\ Truthy(access_token))
       => last'.via = "issued"]_vars

\* C7 amended: after clearUserCache() with no request in flight, the next
\* getCurrentUser() call, a non-empty token being stored, issues a new
\* request; after a clearUserCache() during a request that is still pending at
\* the next call, that call follows the pending promise and issues nothing.
C7_Refetch ==
  /\ [][(last'.op = "getCurrentUser" /\ cleared = "idle" /\ Truthy(access_token)) =>
          /\ last'.via = "issued"
          /\ fetchPromise' \in InFlight' \ InFlight
          /\ calls'[last'.id].fetch = fetchPromise']_vars
  /\ [][(last'.op = "getCurrentUser" /\ cleared = "inflight" /\ InFlight # {}) =>
          /\ last'.via = "coalesced"
          /\ fetches' = fetches]_vars

\* C7 witness: the call after a clearUserCache() made with nothing in flight
\* has just issued a request.
C7_Witness ==
  /\ last.op = "getCurrentUser" /\ last.cleared = "idle" /\ last.via = "issued"
  /\ fetchPromise \in InFlight

\* C8: right after logout() no token is stored, no user is cached and the
\* location is "/".
C8_Logout ==
  last.op = "logout" => (access_token = Null /\ currentUser = Null /\ href = "/")

\* C8 witness: logout() has just run while a request was in flight.
C8_Witness ==
  /\ last.op = "logout"
  /\ InFlight # {}
  /\ href = "/"

\* C9 as stated: the marker never refers to a settled body, and a
\* getCurrentUser() call made with a token stored (any string, the key being
\* present), no user cached and nothing in flight issues a fresh request.
C9_Original ==
  /\ [](fetchPromise # 0 => fetchPromise \in InFlight)
  /\ [][(last'.op = "getCurrentUser" /\ InFlight = {} /\ access_token # Null /\ ~Truthy(currentUser)) =>
          last'.via = "issued"]_vars

\* C9 amended: the marker never refers to a settled body: every settling step
\* leaves it null, a caller's continuation never runs while the marker still
\* holds the promise it followed, and a getCurrentUser() call made with a
\* non-empty token stored, no user cached and nothing in flight issues a
\* fresh request.
C9_MarkerCleared ==
  /\ [](fetchPromise # 0 => fetchPromise \in InFlight)
  /\ [][last'.op \in Settles => (fetchPromise' = 0 /\ last'.id \notin InFlight')]_vars
  /\ [][(last'.op = "observe" /\ last'.id # 0) => fetchPromise # last'.id]_vars
  /\ [][(last'.op = "getCurrentUser" /\ InFlight = {} /\ Truthy(access_token) /\ ~Truthy(currentUser)) =>
          /\ last'.via = "issued"
          /\ fetchPromise' \in InFlight']_vars

\* C9 witness: a fresh request has been issued while a caller of the settled
\* one has not yet run its continuation.
C9_Witness ==
  /\ last.op = "getCurrentUser" /\ last.via = "issued"
  /\ \E c \in DOMAIN calls : calls[c].fetch # 0 /\ fetches[calls[c].fetch].pc = "settled"

\* The state of the session: Fetching while a request is outstanding, else
\* Cached when a user is cached, else Empty.
Phase ==
  IF InFlight # {} THEN "Fetching"
  ELSE IF Truthy(currentUser) THEN "Cached" ELSE "Empty"

\* C10 as stated: Fetching is left only by the request settling, to Cached
\* by an OK completion and to Empty by any other.
C10_Original ==
  [][(Phase = "Fetching" /\ Phase' # "Fetching") =>
       /\ last'.op \in Settles
       /\ (last'.op = "jsonFulfilled" => Phase' = "Cached")
       /\ (last'.op # "jsonFulfilled" => Phase' = "Empty")]_vars

\* C10 amended: Fetching is entered only by getCurrentUser() from Empty, with
\* no cached user and a null marker; it is left only by the request settling,
\* to Cached by an OK completion whose body is truthy and to Empty by any
\* other (non-OK, fault, or an OK completion with a falsy body); Cached is
\* entered only from Fetching.
C10_StateMachine ==
  /\ [][(Phase # "Fetching" /\ Phase' = "Fetching") =>
          /\ Phase = "Empty"
          /\ ~Truthy(currentUser) /\ fetchPromise = 0
          /\ last'.op = "getCurrentUser"]_vars
  /\ [][(Phase = "Fetching" /\ Phase' # "Fetching") =>
          /\ last'.op \in Settles
          /\ ((last'.op = "jsonFulfilled" /\ Truthy(last'.val)) => Phase' = "Cached")
          /\ ((last'.op # "jsonFulfilled" \/ ~Truthy(last'.val)) => Phase' = "Empty")]_vars
  /\ [][(Phase # "Cached" /\ Phase' = "Cached") => Phase = "Fetching"]_vars
  /\ [][(Phase = "Fetching" /\ Phase' = "Fetching") =>
          (last'.op \notin Settles /\ InFlight' = InFlight)]_vars

\* C10 witness: Fetching has just been entered from Empty reached by
\* clearUserCache().
C10_Witness ==
  /\ Phase = "Fetching"
  /\ last.op = "getCurrentUser" /\ last.via = "issued" /\ last.cleared = "idle"
  /\ currentUser = Null

\* C11: clearUserCache() nulls the cached user and changes nothing else: the
\* stored token, the marker, the bodies in flight (so no request is issued or
\* dropped), the callers' promises, the location and the console stay as
\* they were.
C11_ClearFrame ==
  [][last'.op = "clearUserCache" =>
       /\ currentUser' = Null
       /\ access_token' = access_token
       /\ fetchPromise' = fetchPromise
       /\ fetches' = fetches
       /\ calls' = calls
       /\ href' = href /\ console' = console]_vars

\* C11 witness: clearUserCache() has just run during a request; the marker
\* still holds that request's promise and the token is still stored.
C11_Witness ==
  /\ last.op = "clearUserCache"
  /\ fetchPromise \in InFlight
  /\ access_token # Null
  /\ currentUser = Null

\* The steps that write the token slot: setItem at line 56, removeItem at
\* lines 32 and 46.
TokenWriters == {"setToken", "logout", "responseNotOk"}

\* C12: the token slot holds the value of its most recent write: setToken(t)
\* leaves t in it, logout() and the non-OK removal leave it absent, and no
\* other step changes it; getToken() returns the slot's value and changes no
\* state, so getToken() right after setToken(t) returns t.
C12_TokenPassthrough ==
  /\ [][last'.op = "setToken" => (last'.val \in Storable /\ access_token' = last'.val)]_vars
  /\ [][last'.op \in {"logout", "responseNotOk"} => access_token' = Null]_vars
  /\ [][last'.op \notin TokenWriters => access_token' = access_token]_vars
  /\ [][last'.op = "getToken" =>
          /\ last'.val = access_token
          /\ UNCHANGED <<currentUser, fetchPromise, access_token, href, console, fetches, calls, cleared>>]_vars
  /\ [][(last.op = "setToken" /\ last'.op = "getToken") => last'.val = last.val]_vars

\* C12 witness: getToken() has just returned t2 while a request sent with t1
\* is in flight, so t2 was written by setToken() after that request started.
C12_Witness ==
  /\ last.op = "getToken" /\ last.val = "t2" /\ access_token = "t2"
  /\ \E f \in InFlight : fetches[f].token = "t1"

\* C13: a body starts only in a getCurrentUser() call that finds no cached
\* user, a null marker, nothing in flight and a token stored; the request it
\* issues carries the token stored at that call, and keeps carrying it
\* whatever is written to the slot afterwards.
C13_BearerToken ==
  /\ [][(InFlight' \ InFlight # {}) =>
          /\ last'.op = "getCurrentUser" /\ last'.via = "issued"
          /\ ~Truthy(currentUser) /\ fetchPromise = 0 /\ InFlight = {}
          /\ access_token \in Tokens
          /\ InFlight' = {fetchPromise'}
          /\ fetches'[fetchPromise'].token = access_token
          /\ fetches'[fetchPromise'].pc = "fetch"]_vars
  /\ [][\A f \in InFlight \cap InFlight' : fetches'[f].token = fetches[f].token]_vars
  /\ [](\A f \in InFlight : fetches[f].token \in Tokens)

\* C13 witness: the request in flight carries t1, the token stored when it
\* was issued, although the slot has since been overwritten with t2.
C13_Witness ==
  /\ fetchPromise \in InFlight
  /\ fetches[fetchPromise].token = "t1"
  /\ access_token = "t2"
  /\ last.op = "setToken"

\* C14 as stated: while currentUser is non-null the marker is null.
C14_Original ==
  currentUser # Null => fetchPromise = 0

\* C14 amended: a cached user and an in-flight marker never coexist: while
\* currentUser is truthy the marker is null and no body is in flight.
C14_Exclusive ==
  Truthy(currentUser) => (fetchPromise = 0 /\ InFlight = {})

\* C14 witness: an OK completion has just cached the user and cleared the
\* marker in one step, with its callers still to be resumed.
C14_Witness ==
  /\ last.op = "jsonFulfilled"
  /\ currentUser \in Users
  /\ fetchPromise = 0
  /\ Cardinality(Followers(last.id)) >= 2

\* C15: in every reachable state a cached user implies a stored token: once
\* logout() has run no user is cached again until setToken() stores a token.
C15_Original ==
  Truthy(currentUser) => access_token # Null

\* C16 as stated: a non-OK completion of a request whose token is no longer
\* the stored one leaves the slot as it finds it.
C16_Original ==
  [][(last'.op = "responseNotOk" /\ access_token # fetches[last'.id].token)
       => access_token' = access_token]_vars

\* C16 amended: a non-OK completion removes whatever the slot holds when it
\* runs, be it the token the request was sent with or one stored since; the
\* token the request carried plays no part.
C16_DiscardsStored ==
  [][last'.op = "responseNotOk" =>
       /\ last'.val = access_token
       /\ fetches'[last'.id].token = fetches[last'.id].token
       /\ access_token' = Null]_vars

\* C16 witness: the non-OK completion of a request sent with t1 has just
\* removed t2, stored by setToken() while the request was in flight.
C16_Witness ==
  /\ last.op = "responseNotOk"
  /\ fetches[last.id].token = "t1"
  /\ last.val = "t2"
  /\ access_token = Null

\* C18: setToken(t) writes t to the slot and changes nothing else: the cached
\* user, the marker, the bodies in flight and the callers' promises stay as
\* they were; with a user cached, the getCurrentUser() call after it resolves
\* to that user at once and issues no request.
C18_SetTokenFrame ==
  /\ [][last'.op = "setToken" =>
          /\ access_token' = last'.val
          /\ currentUser' = currentUser
          /\ fetchPromise' = fetchPromise
          /\ fetches' = fetches
          /\ calls' = calls
          /\ href' = href /\ console' = console]_vars
  /\ [][(last.op = "setToken" /\ Truthy(currentUser) /\ last'.op = "getCurrentUser") =>
          /\ last'.via = "cached" /\ last'.val = currentUser
          /\ ResolutionIn(calls', fetches', last'.id) = currentUser
          /\ fetches' = fetches /\ fetchPromise' = fetchPromise]_vars

\* C18 witness: setToken(t2) has just run with the user obtained by a request
\* sent with t1 still cached.
C18_Witness ==
  /\ last.op = "setToken" /\ last.val = "t2" /\ access_token = "t2"
  /\ currentUser \in Users
  /\ \E f \in DOMAIN fetches :
       /\ fetches[f].pc = "settled"
       /\ fetches[f].token = "t1"
       /\ fetches[f].result = currentUser

\* No request is pending: the marker is null and every getCurrentUser()
\* promise still waiting for its continuation is resolved.
Quiet ==
  /\ fetchPromise = 0
  /\ InFlight = {}
  /\ \A c \in DOMAIN calls : Resolution(c) \in Bodies

\* C17: when every issued request eventually settles, the module is quiet
\* again and again: every getCurrentUser() promise pending at some instant is
\* resolved later and a set marker returns to null. A continuation only ever
\* runs with a parsed body or null, and a call that finds a cached user, or
\* no token (or an empty one) with a null marker, is resolved by the call itself.
C17_Termination ==
  /\ []<>Quiet
  /\ [][last'.op = "observe" => last'.val \in Bodies]_vars
  /\ [][(last'.op = "getCurrentUser"
           /\ (Truthy(currentUser) \/ (~Truthy(access_token) /\ fetchPromise = 0))) =>
          /\ ResolutionIn(calls', fetches', last'.id) # Pending
          /\ calls'[last'.id].fetch = 0]_vars

\* C17 witness: the caller that issued a request and a coalesced one have
\* both been resolved by its settling, and the marker is null again.
C17_Witness ==
  /\ last.op \in Settles
  /\ fetchPromise = 0
  /\ Cardinality(Followers(last.id)) >= 2
  /\ \A c \in Followers(last.id) : Resolution(c) # Pending
====
